---- MODULE Spec2Model ----
(* Model of the Express + Mongoose employee server of src/main.js.        *)
(*                                                                         *)
(* startServer awaits mongoose.connect, then registers the four routes and *)
(* calls app.listen.  Every async route handler runs in two synchronous    *)
(* pieces separated by one await on a store operation: the piece before    *)
(* the await builds the documents and issues the operation, the store then *)
(* completes the operation (successfully or with a fault), and the piece   *)
(* after the await sends the response.  Pieces of different requests       *)
(* interleave freely on the single event loop.  A store operation takes    *)
(* effect on the collection at the step where it completes.                *)
EXTENDS Integers, Sequences, FiniteSets, TLC

VARIABLES
    startPc,      \* position of startServer: "connecting", "listening", "failed"
    routes,       \* the set of paths registered with app.get
    listening,    \* TRUE once app.listen(port) has bound the port
    collection,   \* the employees collection: a set of stored documents
    reqs,         \* the HTTP requests made so far, in order of arrival
    smin, smax,   \* arguments of a direct getRandomSalary call
    srand,        \* numerator of the Math.random() value of that call
    sres          \* <<result>> of that call, <<>> before the call

vars == <<startPc, routes, listening, collection, reqs, smin, smax, srand, sres>>

----------------------------------------------------------------------------
(* Bounds *)

MaxReq == 2        \* number of HTTP requests in a behaviour
RandBits == 4      \* Math.random() is modelled with RandBits bits of resolution
MaxFaults == 1     \* number of store operations that fail in a behaviour
MaxVal == 4        \* direct getRandomSalary calls take min, max in -MaxVal..MaxVal

RandDen == 2 ^ RandBits

(* Program constants *)

DefaultMin == 400000
DefaultMax == 5000000
FixedSalary == 1200000
BatchSize == 10

----------------------------------------------------------------------------
(* getRandomSalary: Math.floor(Math.random() * (max - min + 1)) + min,     *)
(* with Math.random() = k / RandDen, 0 <= k < RandDen.                     *)

getRandomSalaryNoPlusOne(k, min, max) == ((k * (max - min)) \div RandDen) + min

getRandomSalary(k, min, max) == ((k * (max - min + 1)) \div RandDen) + min

----------------------------------------------------------------------------
(* Documents *)

GenerateDocCapitalCity ==
    [name |-> "Salman", salary |-> FixedSalary, language |-> "Full stack",
     city |-> "Japan", isManager |-> FALSE]

GenerateDoc ==
    [name |-> "Salman", salary |-> FixedSalary, language |-> "Full stack",
     city |-> "japan", isManager |-> FALSE]

baseEmployees ==
    << [name |-> "Salman", language |-> "Full stack",       city |-> "Japan",     isManager |-> FALSE],
       [name |-> "Ayesha", language |-> "Python",           city |-> "Delhi",     isManager |-> TRUE],
       [name |-> "Rahul",  language |-> "Java",             city |-> "Mumbai",    isManager |-> FALSE],
       [name |-> "Neha",   language |-> "React",            city |-> "Pune",      isManager |-> FALSE],
       [name |-> "Vikram", language |-> "Angular",          city |-> "Hyderabad", isManager |-> TRUE],
       [name |-> "Arjun",  language |-> "Node.js",          city |-> "Bangalore", isManager |-> FALSE],
       [name |-> "Meena",  language |-> "C++",              city |-> "Chennai",   isManager |-> FALSE],
       [name |-> "Kiran",  language |-> "Machine Learning", city |-> "Kolkata",   isManager |-> TRUE],
       [name |-> "Simran", language |-> "Data Science",     city |-> "Jaipur",    isManager |-> FALSE],
       [name |-> "Ankit",  language |-> "Full Stack",       city |-> "Lucknow",   isManager |-> TRUE] >>

(* The Math.random() numerators of the ten getRandomSalary() calls of one  *)
(* /generateMany request: all highest, or a ramp that starts at the lowest. *)
SalaryDraws ==
    { [i \in 1..BatchSize |-> (a * i + RandDen - 1) % RandDen] : a \in 0..1 }

MapEmployeesFirstBase(draw) ==
    [i \in 1..BatchSize |->
        [name |-> baseEmployees[1].name, language |-> baseEmployees[1].language,
         city |-> baseEmployees[1].city, isManager |-> baseEmployees[1].isManager,
         salary |-> getRandomSalary(draw[i], DefaultMin, DefaultMax)]]

(* baseEmployees.map(emp => ({...emp, salary: getRandomSalary()})) *)
MapEmployees(draw) ==
    [i \in 1..BatchSize |->
        [name |-> baseEmployees[i].name, language |-> baseEmployees[i].language,
         city |-> baseEmployees[i].city, isManager |-> baseEmployees[i].isManager,
         salary |-> getRandomSalary(draw[i], DefaultMin, DefaultMax)]]

(* The stored form of a document: the five schema fields and the           *)
(* store-assigned identifier, unique per request and position.             *)
Employee(doc, id) ==
    [_id |-> id, name |-> doc.name, salary |-> doc.salary, language |-> doc.language,
     city |-> doc.city, isManager |-> doc.isManager]

Stored(docs, r, n) == { Employee(docs[j], <<r, j>>) : j \in 1..n }

----------------------------------------------------------------------------
(* Responses *)

GeneratedText == "generated successfully"
\* the source text starts with a check-mark emoji, which a TLA+ string cannot hold
GeneratedManyText == "10 employees generated successfully!"
DeletedPrefix == "Successfully deleted the empoyees details of "
NoneFoundText == "No employee record found"
ErrorText == "Internal server error"
IndexPage == "index"

Response(status, body) == [status |-> status, body |-> body]

(* Number of HTTP 500 responses sent so far. *)
Sent500 ==
    Cardinality({ j \in 1..Len(reqs) :
                    \E n \in 1..Len(reqs[j].responses) : reqs[j].responses[n].status = 500 })

(* A request and the progress of its handler: pc is "refused" (no handler  *)
(* ran), "await" (suspended on the store operation), "resumed" (operation  *)
(* settled, continuation not yet run) or "done".  handlers, ops and after  *)
(* count the handlers run, the store operations issued, and the 500        *)
(* responses that had been sent when the request arrived.                  *)
NewReq(route, pc, docs) ==
    [route |-> route, after |-> Sent500, pc |-> pc, docs |-> docs, ops |-> IF pc = "await" THEN 1 ELSE 0,
     handlers |-> IF pc = "refused" THEN 0 ELSE 1,
     result |-> "none", deletedCount |-> -1, responses |-> <<>>]

Routes == {"/", "/generate", "/generateMany", "/empDelete"}

NoCall == smin = 0 /\ smax = 0 /\ srand = 0 /\ sres = <<>>

Init ==
    /\ startPc = "connecting"
    /\ routes = {}
    /\ listening = FALSE
    /\ collection = {}
    /\ reqs = <<>>
    /\ NoCall

srv == <<startPc, routes, listening>>
sal == <<smin, smax, srand, sres>>

----------------------------------------------------------------------------
(* startServer *)

(* await mongoose.connect(...) resolves: the routes are registered and     *)
(* app.listen(port) binds the port.                                        *)
ConnectOk ==
    /\ startPc = "connecting"
    /\ startPc' = "listening"
    /\ routes' = Routes
    /\ listening' = TRUE
    /\ UNCHANGED <<collection, reqs, sal>>

ConnectFailListens ==
    /\ startPc = "connecting"
    /\ startPc' = "failed"
    /\ routes' = Routes
    /\ listening' = TRUE
    /\ UNCHANGED <<collection, reqs, sal>>

(* await mongoose.connect(...) rejects: the outer catch logs the error and *)
(* startServer returns without registering a route or listening.           *)
ConnectFail ==
    /\ startPc = "connecting"
    /\ startPc' = "failed"
    /\ UNCHANGED <<routes, listening, collection, reqs, sal>>

----------------------------------------------------------------------------
(* Arrival of a request and the part of its handler before the await *)

Accepts(path) == listening /\ path \in routes /\ Len(reqs) < MaxReq

(* A client connects while the port is not bound: no handler runs. *)
RequestRefused(path) ==
    /\ ~listening
    /\ Len(reqs) < MaxReq
    /\ reqs' = Append(reqs, NewReq(path, "refused", <<>>))
    /\ UNCHANGED <<srv, collection, sal>>

(* app.get("/"): res.render('index') *)
GetIndex ==
    /\ Accepts("/")
    /\ reqs' = Append(reqs, [NewReq("/", "done", <<>>) EXCEPT
                                !.responses = <<Response(200, IndexPage)>>])
    /\ UNCHANGED <<srv, collection, sal>>

(* app.get("/generate") up to await employee.save() *)
GetGenerate ==
    /\ Accepts("/generate")
    /\ reqs' = Append(reqs, NewReq("/generate", "await", <<GenerateDoc>>))
    /\ UNCHANGED <<srv, collection, sal>>

(* app.get("/generateMany") up to await Employee.insertMany(employees) *)
GetGenerateMany ==
    /\ Accepts("/generateMany")
    /\ \E draw \in SalaryDraws :
          reqs' = Append(reqs, NewReq("/generateMany", "await", MapEmployees(draw)))
    /\ UNCHANGED <<srv, collection, sal>>

(* app.get("/empDelete") up to await Employee.deleteMany({}) *)
GetEmpDelete ==
    /\ Accepts("/empDelete")
    /\ reqs' = Append(reqs, NewReq("/empDelete", "await", <<>>))
    /\ UNCHANGED <<srv, collection, sal>>

----------------------------------------------------------------------------
(* Completion of the awaited store operation *)

Faults == Cardinality({ j \in 1..Len(reqs) : reqs[j].result = "err" })

(* The store can fail an operation (bounded by MaxFaults per behaviour). *)
CanFail == Faults < MaxFaults

Awaiting(i, path) == i \in 1..Len(reqs) /\ reqs[i].route = path /\ reqs[i].pc = "await"

Settle(i, result, count) ==
    reqs' = [reqs EXCEPT ![i] = [@ EXCEPT !.pc = "resumed", !.result = result,
                                          !.deletedCount = count]]

(* employee.save() resolves: the document is stored. *)
SaveOk(i) ==
    /\ Awaiting(i, "/generate")
    /\ collection' = collection \cup Stored(reqs[i].docs, i, 1)
    /\ Settle(i, "ok", -1)
    /\ UNCHANGED <<srv, sal>>

SaveFailStores(i) ==
    /\ CanFail
    /\ Awaiting(i, "/generate")
    /\ collection' = collection \cup Stored(reqs[i].docs, i, 1)
    /\ Settle(i, "err", -1)
    /\ UNCHANGED <<srv, sal>>

(* employee.save() rejects: a single-document write is not applied. *)
SaveFail(i) ==
    /\ CanFail
    /\ Awaiting(i, "/generate")
    /\ Settle(i, "err", -1)
    /\ UNCHANGED <<srv, collection, sal>>

(* Employee.insertMany(employees) resolves: all ten documents are stored. *)
InsertManyOk(i) ==
    /\ Awaiting(i, "/generateMany")
    /\ collection' = collection \cup Stored(reqs[i].docs, i, BatchSize)
    /\ Settle(i, "ok", -1)
    /\ UNCHANGED <<srv, sal>>

(* Employee.insertMany(employees) rejects.  The call sets no option and    *)
(* opens no transaction, so the insert is the store's default ordered      *)
(* bulk write: it stops at the first document that fails, and the k        *)
(* documents before it stay stored.                                        *)
InsertManyFail(i, k) ==
    /\ CanFail
    /\ Awaiting(i, "/generateMany")
    /\ k \in 0..(BatchSize - 1)
    /\ collection' = collection \cup Stored(reqs[i].docs, i, k)
    /\ Settle(i, "err", -1)
    /\ UNCHANGED <<srv, sal>>

DeleteManyOkStaleCount(i) ==
    /\ Awaiting(i, "/empDelete")
    /\ collection' = {}
    /\ Settle(i, "ok", Cardinality({ e \in collection : e._id[1] < i }))
    /\ UNCHANGED <<srv, sal>>

(* Employee.deleteMany({}) resolves: every document is removed and         *)
(* deletedCount is their number.                                           *)
DeleteManyOk(i) ==
    /\ Awaiting(i, "/empDelete")
    /\ collection' = {}
    /\ Settle(i, "ok", Cardinality(collection))
    /\ UNCHANGED <<srv, sal>>

DeleteManyFailCrashes(i) ==
    /\ CanFail
    /\ Awaiting(i, "/empDelete")
    /\ Settle(i, "err", -1)
    /\ startPc' = "failed"
    /\ routes' = {}
    /\ listening' = FALSE
    /\ UNCHANGED <<collection, sal>>

(* Employee.deleteMany({}) rejects. *)
DeleteManyFail(i) ==
    /\ CanFail
    /\ Awaiting(i, "/empDelete")
    /\ Settle(i, "err", -1)
    /\ UNCHANGED <<srv, collection, sal>>

----------------------------------------------------------------------------
(* The part of a handler after the await: res.send in the try block, or    *)
(* res.status(500).send in the catch block.                                *)

Resumed(i, path) == i \in 1..Len(reqs) /\ reqs[i].route = path /\ reqs[i].pc = "resumed"

Send(i, resps) ==
    reqs' = [reqs EXCEPT ![i] = [@ EXCEPT !.pc = "done", !.responses = @ \o resps]]

GenerateResumeAlwaysOk(i) ==
    /\ Resumed(i, "/generate")
    /\ Send(i, <<Response(200, GeneratedText)>>)
    /\ UNCHANGED <<srv, collection, sal>>

GenerateResume(i) ==
    /\ Resumed(i, "/generate")
    /\ IF reqs[i].result = "ok"
          THEN Send(i, <<Response(200, GeneratedText)>>)
          ELSE Send(i, <<Response(500, ErrorText)>>)
    /\ UNCHANGED <<srv, collection, sal>>

GenerateManyResumeTwice(i) ==
    /\ Resumed(i, "/generateMany")
    /\ IF reqs[i].result = "ok"
          THEN Send(i, <<Response(200, GeneratedManyText)>>)
          ELSE Send(i, <<Response(200, GeneratedManyText), Response(500, ErrorText)>>)
    /\ UNCHANGED <<srv, collection, sal>>

GenerateManyResume(i) ==
    /\ Resumed(i, "/generateMany")
    /\ IF reqs[i].result = "ok"
          THEN Send(i, <<Response(200, GeneratedManyText)>>)
          ELSE Send(i, <<Response(500, ErrorText)>>)
    /\ UNCHANGED <<srv, collection, sal>>

(* `Successfully deleted the empoyees details of ${empDel.deletedCount}` *)
DeletedText(n) == DeletedPrefix \o ToString(n)

EmpDeleteResumeGeq(i) ==
    /\ Resumed(i, "/empDelete")
    /\ IF reqs[i].result = "ok"
          THEN IF reqs[i].deletedCount >= 0
                  THEN Send(i, <<Response(200, DeletedText(reqs[i].deletedCount))>>)
                  ELSE Send(i, <<Response(200, NoneFoundText)>>)
          ELSE Send(i, <<Response(500, ErrorText)>>)
    /\ UNCHANGED <<srv, collection, sal>>

EmpDeleteResume(i) ==
    /\ Resumed(i, "/empDelete")
    /\ IF reqs[i].result = "ok"
          THEN IF reqs[i].deletedCount > 0
                  THEN Send(i, <<Response(200, DeletedText(reqs[i].deletedCount))>>)
                  ELSE Send(i, <<Response(200, NoneFoundText)>>)
          ELSE Send(i, <<Response(500, ErrorText)>>)
    /\ UNCHANGED <<srv, collection, sal>>

----------------------------------------------------------------------------

Next ==
    \/ ConnectOk
    \/ ConnectFail
    \/ \E path \in Routes : RequestRefused(path)
    \/ GetIndex
    \/ GetGenerate
    \/ GetGenerateMany
    \/ GetEmpDelete
    \/ \E i \in 1..MaxReq : SaveOk(i)
    \/ \E i \in 1..MaxReq : SaveFail(i)
    \/ \E i \in 1..MaxReq : InsertManyOk(i)
    \/ \E i \in 1..MaxReq : \E k \in 0..(BatchSize - 1) : InsertManyFail(i, k)
    \/ \E i \in 1..MaxReq : DeleteManyOk(i)
    \/ \E i \in 1..MaxReq : DeleteManyFail(i)
    \/ \E i \in 1..MaxReq : GenerateResume(i)
    \/ \E i \in 1..MaxReq : GenerateManyResume(i)
    \/ \E i \in 1..MaxReq : EmpDeleteResume(i)

Spec == Init /\ [][Next]_vars

----------------------------------------------------------------------------
(* Direct calls of getRandomSalary(min, max) with integers min <= max, and *)
(* the call with the default arguments.                                    *)

InitSalary ==
    /\ startPc = "connecting"
    /\ routes = {}
    /\ listening = FALSE
    /\ collection = {}
    /\ reqs = <<>>
    /\ \/ smin \in (-MaxVal)..MaxVal /\ smax \in smin..MaxVal
       \/ smin = DefaultMin /\ smax = DefaultMax
    /\ srand \in 0..(RandDen - 1)
    /\ sres = <<>>

CallGetRandomSalary ==
    /\ sres = <<>>
    /\ sres' = <<getRandomSalary(srand, smin, smax)>>
    /\ UNCHANGED <<srv, collection, reqs, smin, smax, srand>>

NextSalary == CallGetRandomSalary

SpecSalary == InitSalary /\ [][NextSalary]_vars

----------------------------------------------------------------------------
(* Properties *)

Ids == 1..Len(reqs)
Done(i) == reqs[i].pc = "done"
Mutating == {"/generate", "/generateMany", "/empDelete"}

(* The awaited store operation of request i settles in this step. *)
Settles(i, path, result) ==
    Awaiting(i, path) /\ reqs'[i].pc = "resumed" /\ reqs'[i].result = result

Added == collection' \ collection

Identity(e) ==
    [name |-> e.name, language |-> e.language, city |-> e.city, isManager |-> e.isManager]

(* C1: a /generate request answered 200 "generated successfully" is one    *)
(* whose save succeeded, and the step in which its save succeeds adds      *)
(* exactly one record to the collection, with name "Salman", salary        *)
(* 1200000, language "Full stack", city "japan", isManager false, and      *)
(* keeps every other record.                                               *)
C1_GenerateAddsOneFixedRecord ==
    /\ [](\A i \in Ids :
            (reqs[i].route = "/generate" /\ Done(i)
               /\ reqs[i].responses = <<[status |-> 200, body |-> "generated successfully"]>>)
            => reqs[i].result = "ok")
    /\ [][\A i \in 1..MaxReq :
            Settles(i, "/generate", "ok") =>
               /\ collection \subseteq collection'
               /\ Cardinality(collection') = Cardinality(collection) + 1
               /\ \A e \in Added :
                     /\ e.name = "Salman"
                     /\ e.salary = 1200000
                     /\ e.language = "Full stack"
                     /\ e.city = "japan"
                     /\ e.isManager = FALSE]_vars

C1_Witness ==
    \E i \in Ids :
        /\ reqs[i].route = "/generate" /\ Done(i)
        /\ reqs[i].responses = <<[status |-> 200, body |-> "generated successfully"]>>
        /\ \E e \in collection : e._id = <<i, 1>>

(* C2: a /generateMany request answered 200 with the success text is one   *)
(* whose insertMany succeeded, and the step in which insertMany succeeds   *)
(* adds exactly ten records, each with 400000 <= salary <= 5000000, and    *)
(* each of the ten base identities is the identity of exactly one of them. *)
C2_GenerateManyAddsTen ==
    /\ [](\A i \in Ids :
            (reqs[i].route = "/generateMany" /\ Done(i)
               /\ reqs[i].responses =
                     <<[status |-> 200, body |-> "10 employees generated successfully!"]>>)
            => reqs[i].result = "ok")
    /\ [][\A i \in 1..MaxReq :
            Settles(i, "/generateMany", "ok") =>
               /\ collection \subseteq collection'
               /\ Cardinality(Added) = 10
               /\ \A e \in Added : 400000 <= e.salary /\ e.salary <= 5000000
               /\ \A e \in Added : \E b \in 1..10 : Identity(e) = baseEmployees[b]
               /\ \A b \in 1..10 :
                     Cardinality({ e \in Added : Identity(e) = baseEmployees[b] }) = 1]_vars

C2_Witness ==
    \E i \in Ids :
        /\ reqs[i].route = "/generateMany" /\ Done(i)
        /\ reqs[i].responses =
              <<[status |-> 200, body |-> "10 employees generated successfully!"]>>
        /\ Cardinality({ e \in collection : e._id[1] = i }) = 10
        /\ \E e, f \in collection : e._id[1] = i /\ f._id[1] = i /\ e.salary # f.salary

(* C3: the step in which deleteMany succeeds empties the collection and    *)
(* returns the number of records it held; the request is then answered     *)
(* 200, with "No employee record found" when that number is 0 and with     *)
(* "Successfully deleted the empoyees details of N" when it is N > 0.      *)
C3_DeleteAll ==
    /\ [][\A i \in 1..MaxReq :
            Settles(i, "/empDelete", "ok") =>
               /\ collection' = {}
               /\ reqs'[i].deletedCount = Cardinality(collection)]_vars
    /\ [](\A i \in Ids :
            (reqs[i].route = "/empDelete" /\ Done(i) /\ reqs[i].result = "ok") =>
               /\ Len(reqs[i].responses) = 1
               /\ reqs[i].responses[1].status = 200
               /\ reqs[i].deletedCount = 0 =>
                     reqs[i].responses[1].body = "No employee record found"
               /\ reqs[i].deletedCount = 1 =>
                     reqs[i].responses[1].body = "Successfully deleted the empoyees details of 1"
               /\ reqs[i].deletedCount = 10 =>
                     reqs[i].responses[1].body = "Successfully deleted the empoyees details of 10"
               /\ reqs[i].deletedCount > 0 =>
                     reqs[i].responses[1].body =
                        "Successfully deleted the empoyees details of "
                           \o ToString(reqs[i].deletedCount))

C3_Witness ==
    /\ collection = {}
    /\ \E i, j \in Ids :
        /\ reqs[i].route = "/empDelete" /\ Done(i) /\ reqs[i].deletedCount = 10
        /\ reqs[i].responses[1].body = "Successfully deleted the empoyees details of 10"
        /\ reqs[j].route = "/generateMany" /\ reqs[j].result = "ok"

(* C4: a request of a mutating route whose store operation failed is       *)
(* answered 500 "Internal server error" and never with a success text.     *)
C4_FaultGives500 ==
    \A i \in Ids :
        (reqs[i].route \in Mutating /\ Done(i) /\ reqs[i].result = "err") =>
           /\ reqs[i].responses = <<[status |-> 500, body |-> "Internal server error"]>>
           /\ \A n \in 1..Len(reqs[i].responses) :
                 /\ reqs[i].responses[n].status # 200
                 /\ reqs[i].responses[n].body # GeneratedText
                 /\ reqs[i].responses[n].body # GeneratedManyText
                 /\ reqs[i].responses[n].body # NoneFoundText

C4_Witness ==
    \E i \in Ids :
        /\ reqs[i].route = "/generate" /\ Done(i) /\ reqs[i].result = "err"
        /\ reqs[i].responses = <<[status |-> 500, body |-> "Internal server error"]>>

(* C5 as stated: the step in which the store operation of a create route   *)
(* fails leaves the collection as it was.                                  *)
C5_Original ==
    [][\A i \in 1..MaxReq :
          (Settles(i, "/generate", "err") \/ Settles(i, "/generateMany", "err"))
          => collection' = collection]_vars

(* C5 as amended: the step in which save fails leaves the collection as    *)
(* it was; the step in which insertMany fails keeps every prior record     *)
(* and adds only a leading part, of 0 to 9 records, of the request's ten.  *)
C5_FaultKeepsPriorContents ==
    [][\A i \in 1..MaxReq :
          /\ Settles(i, "/generate", "err") => collection' = collection
          /\ Settles(i, "/generateMany", "err") =>
                /\ collection \subseteq collection'
                /\ \E k \in 0..9 :
                      Added = { [_id |-> <<i, j>>, name |-> reqs[i].docs[j].name,
                                 salary |-> reqs[i].docs[j].salary,
                                 language |-> reqs[i].docs[j].language,
                                 city |-> reqs[i].docs[j].city,
                                 isManager |-> reqs[i].docs[j].isManager] : j \in 1..k }]_vars

C5_Witness ==
    \E i \in Ids :
        /\ reqs[i].route = "/generateMany" /\ Done(i) /\ reqs[i].result = "err"
        /\ reqs[i].responses[1].status = 500
        /\ Cardinality({ e \in collection : e._id[1] = i }) \in 1..9

(* C6: the port is bound and routes are registered only once connect has   *)
(* succeeded; while connect is pending or after it failed no handler has   *)
(* run and no request has been answered, and a failed start stays failed.  *)
C6_ListenOnlyAfterConnect ==
    /\ []((listening \/ routes # {}) => startPc = "listening")
    /\ [](startPc # "listening" =>
            \A i \in Ids : reqs[i].handlers = 0 /\ reqs[i].responses = <<>>)
    /\ [][startPc = "failed" => startPc' = "failed" /\ ~listening']_vars

C6_Witness ==
    /\ startPc = "failed"
    /\ ~listening
    /\ Len(reqs) > 0
    /\ \A i \in Ids : reqs[i].pc = "refused"

(* C7: for integers min <= max, getRandomSalary returns for every random   *)
(* value an integer of min..max, every integer of min..max is returned     *)
(* for some random value, and the defaults give the range                  *)
(* 400000..5000000.                                                        *)
C7_SalaryInClosedRange ==
    /\ sres # <<>> => (sres[1] \in Int /\ smin <= sres[1] /\ sres[1] <= smax)
    /\ \A k \in 0..(RandDen - 1) :
          smin <= getRandomSalary(k, smin, smax) /\ getRandomSalary(k, smin, smax) <= smax
    /\ (smax - smin + 1 <= RandDen) =>
          \A n \in smin..smax : \E k \in 0..(RandDen - 1) : getRandomSalary(k, smin, smax) = n
    /\ getRandomSalary(0, 400000, 5000000) = 400000
    /\ \A k \in 0..(RandDen - 1) :
          /\ 400000 <= getRandomSalary(k, DefaultMin, DefaultMax)
          /\ getRandomSalary(k, DefaultMin, DefaultMax) <= 5000000

C7_Witness ==
    /\ smin < smax
    /\ sres = <<smax>>
    /\ srand = RandDen - 1

(* C8: startServer reaches "listening" only from "connecting" and never    *)
(* leaves it; after a store fault the port stays bound and the routes      *)
(* registered, and a request whose store operation succeeds is answered    *)
(* with its success text whatever faults came before.                      *)
C8_ReadyIsStable ==
    /\ [][/\ startPc = "listening" => (startPc' = "listening" /\ listening' /\ routes' = Routes)
          /\ (startPc # "listening" /\ startPc' = "listening") => startPc = "connecting"]_vars
    /\ []((Faults > 0 \/ Sent500 > 0) => (startPc = "listening" /\ listening /\ routes = Routes))
    /\ [](\A i \in Ids :
            (Done(i) /\ reqs[i].result = "ok") =>
               /\ Len(reqs[i].responses) = 1
               /\ reqs[i].responses[1].status = 200
               /\ reqs[i].responses[1].body # "Internal server error")

C8_Witness ==
    \E i, j \in Ids :
        /\ Done(i) /\ reqs[i].result = "err" /\ reqs[i].responses[1].status = 500
        /\ reqs[j].after > 0
        /\ Done(j) /\ reqs[j].result = "ok" /\ reqs[j].responses[1].status = 200
        /\ listening

(* C9: a request accepted while listening runs one handler; it issues one  *)
(* store operation on the mutating routes and none on GET /, whose         *)
(* arrival leaves the collection unchanged; it never has two responses,    *)
(* has exactly one when finished, and has none before its store operation  *)
(* has succeeded or failed.                                                *)
C9_OneHandlerOneOpOneResponse ==
    /\ [](\A i \in Ids :
            /\ Len(reqs[i].responses) <= 1
            /\ reqs[i].pc # "refused" =>
                  /\ reqs[i].handlers = 1
                  /\ reqs[i].ops <= 1
                  /\ reqs[i].route \in Mutating => reqs[i].ops = 1
                  /\ reqs[i].route = "/" => reqs[i].ops = 0
                  /\ Done(i) => Len(reqs[i].responses) = 1
                  /\ (reqs[i].route \in Mutating /\ reqs[i].responses # <<>>) =>
                        reqs[i].result \in {"ok", "err"}
                  /\ (reqs[i].route \in Mutating /\ reqs[i].result = "none") =>
                        reqs[i].responses = <<>>)
    /\ [][(Len(reqs') = Len(reqs) + 1 /\ reqs'[Len(reqs')].route = "/")
             => collection' = collection]_vars

C9_Witness ==
    \E i, j \in Ids :
        /\ reqs[i].route = "/" /\ Done(i) /\ reqs[i].responses[1].status = 200
        /\ reqs[j].route \in Mutating /\ Done(j) /\ reqs[j].ops = 1
        /\ collection # {}

RECURSIVE SumOver(_, _)
SumOver(f, n) == IF n = 0 THEN 0 ELSE f[n] + SumOver(f, n - 1)

(* The count N that the response of /empDelete request i reports. *)
ReportedCount(i) ==
    IF reqs[i].route # "/empDelete" \/ reqs[i].responses = <<>> THEN 0
    ELSE IF reqs[i].responses[1].body = "No employee record found" THEN 0
    ELSE CHOOSE n \in 0..(10 * MaxReq) :
            reqs[i].responses[1].body =
               "Successfully deleted the empoyees details of " \o ToString(n)

NumRoute(path) == Cardinality({ i \in Ids : reqs[i].route = path /\ reqs[i].pc = "done" })

====
